---- MODULE Spec2Model ----
(***************************************************************************)
(* ShowInvestor.py: the dashboard pipeline                                 *)
(*   column check -> tag/concat -> analyze_data -> generate_insights ->    *)
(*   generate_pdf                                                          *)
(* over two uploaded tables (sales file, expenses file).                   *)
(*                                                                         *)
(* Encoding of the cells of a table:                                       *)
(*   Date         a natural number: 0 is a missing value (None/NaN/empty), *)
(*                any other number is the digits YYYYMMDD of the string    *)
(*                "YYYY-MM-DD" (20240105 is "2024-01-05", 20241340 is the  *)
(*                unparseable "2024-13-40");                               *)
(*   Description  a natural number: 0 is NaN, k > 0 is the k-th product    *)
(*                label in lexical order;                                  *)
(*   Amount       [kind, val]: kind "num" is the number val, kind "text"   *)
(*                a non-numeric string such as "abc", kind "nan" is NaN;   *)
(*   Type         "Sales" or "Expense".                                    *)
(* A DataFrame is [columns, rows]; a row is a function over the columns    *)
(* plus the pseudo-column "index" that holds the row's index label.        *)
(***************************************************************************)
EXTENDS Integers, Sequences, FiniteSets, TLC

VARIABLES pc, sales_df, expenses_df, df, records, insights, elements, calls, error

vars == <<pc, sales_df, expenses_df, df, records, insights, elements, calls, error>>

\* ---------------------------------------------------------------- bounds
\* Rows uploaded in the two files together.
MaxRows == 2
\* Products (one sales row each) of the product-ranking inputs.
MaxProducts == 7

\* ---------------------------------------------------------------- helpers
RECURSIVE SumSeq(_)
SumSeq(s) == IF s = <<>> THEN 0 ELSE Head(s) + SumSeq(Tail(s))

Abs(x) == IF x < 0 THEN -x ELSE x

Min(a, b) == IF a < b THEN a ELSE b

Max(a, b) == IF a > b THEN a ELSE b

\* Position of x in the sequence s, 0 when absent.
RECURSIVE PositionFrom(_, _, _)
PositionFrom(s, x, i) ==
    IF i > Len(s) THEN 0
    ELSE IF s[i] = x THEN i
    ELSE PositionFrom(s, x, i + 1)

Position(s, x) == PositionFrom(s, x, 1)

\* pandas unique(): the values in order of first appearance.
RECURSIVE Unique(_)
Unique(s) ==
    IF s = <<>> THEN <<>>
    ELSE LET front == Unique(SubSeq(s, 1, Len(s) - 1))
             last == s[Len(s)]
         IN IF Position(front, last) > 0 THEN front ELSE Append(front, last)

\* ---------------------------------------------------------------- columns
required_columns == {"Date", "Description", "Amount"}

NaNAmount == [kind |-> "nan", val |-> 0]

Num(v) == [kind |-> "num", val |-> v]

Text == [kind |-> "text", val |-> 0]

\* The missing value pd.concat fills in for a column one of the frames lacks.
NaNOf(c) == IF c = "Amount" THEN NaNAmount ELSE 0

EmptyFrame == [columns |-> {}, rows |-> <<>>]

\* sales_df["Type"] = "Sales" / expenses_df["Type"] = "Expense"
TagType(frame, t) ==
    [columns |-> frame.columns \cup {"Type"},
     rows |-> [i \in DOMAIN frame.rows |->
                 [c \in DOMAIN frame.rows[i] \cup {"Type"} |->
                    IF c = "Type" THEN t ELSE frame.rows[i][c]]]]

\* pd.concat([a, b], ignore_index=True): the rows of a then those of b, over the
\* union of the columns, relabelled 0..n-1.
concat(a, b) ==
    LET cols == a.columns \cup b.columns
        all == a.rows \o b.rows
    IN [columns |-> cols,
        rows |-> [i \in DOMAIN all |->
                    [c \in cols \cup {"index"} |->
                       IF c = "index" THEN i - 1
                       ELSE IF c \in DOMAIN all[i] THEN all[i][c]
                       ELSE NaNOf(c)]]]

\* ---------------------------------------------------------------- analyze_data
\* pd.to_numeric(..., errors="coerce") on one cell.
to_numeric(cell) == IF cell.kind = "num" THEN cell ELSE NaNAmount

IsNaN(cell) == cell.kind = "nan"

NotNaNAmount(r) == ~IsNaN(r["Amount"])

KeepAll(rows) == rows

\* df.dropna(subset=["Amount"])
dropna(rows) == SelectSeq(rows, NotNaNAmount)

DateMonth(d) == (d \div 100) % 100

DateDay(d) == d % 100

DateYear(d) == d \div 10000

IsLeap(y) == (y % 4 = 0 /\ y % 100 # 0) \/ y % 400 = 0

DaysInMonth(y, m) ==
    IF m = 2 THEN (IF IsLeap(y) THEN 29 ELSE 28)
    ELSE IF m \in {4, 6, 9, 11} THEN 30
    ELSE 31

\* What pd.to_datetime accepts: a missing value, or a real calendar date.
Parseable(d) ==
    \/ d = 0
    \/ /\ DateMonth(d) \in 1..12
       /\ DateDay(d) \in 1..DaysInMonth(DateYear(d), DateMonth(d))

NaT == [year |-> 0, month |-> 0, day |-> 0]

\* pd.to_datetime on one (parseable) cell.
to_datetime(d) ==
    IF d = 0 THEN NaT
    ELSE [year |-> DateYear(d), month |-> DateMonth(d), day |-> DateDay(d)]

ClassifyNonNegative(x) == IF x >= 0 THEN "Sales" ELSE "Expense"

\* lambda x: "Sales" if x > 0 else "Expense"
Classify(x) == IF x > 0 THEN "Sales" ELSE "Expense"

\* strftime("%B") names.
MonthName ==
    <<"January", "February", "March", "April", "May", "June",
      "July", "August", "September", "October", "November", "December">>

\* dt.strftime("%B") on one cell: NaT gives NaN.
strftime_B(ts) == IF ts = NaT THEN "NaN" ELSE MonthName[ts.month]

month_order_alphabetical ==
    <<"April", "August", "December", "February", "January", "July",
      "June", "March", "May", "November", "October", "September">>

month_order ==
    <<"January", "February", "March", "April", "May", "June",
      "July", "August", "September", "October", "November", "December">>

\* pd.Categorical(..., categories=month_order, ordered=True): the code of a
\* month name, 0 for NaN (a value that is no category).
MonthCode(name) == Position(month_order, name)

\* Sort key of sort_values("Month"): category order, NaN last.
MonthKey(r) ==
    IF MonthCode(r["Month"]) = 0 THEN Len(month_order) + 1
    ELSE MonthCode(r["Month"])

\* s with x put after its first i elements.
InsertAt(s, i, x) == SubSeq(s, 1, i) \o <<x>> \o SubSeq(s, i + 1, Len(s))

\* Every way to put r into the sorted rows that keeps them sorted: among
\* rows of the same month r may land anywhere.
InsertByMonth(sorted, r) ==
    {InsertAt(sorted, i, r) :
       i \in {j \in 0..Len(sorted) :
                /\ \A k \in 1..j : MonthKey(sorted[k]) <= MonthKey(r)
                /\ \A k \in (j + 1)..Len(sorted) : MonthKey(sorted[k]) >= MonthKey(r)}}

\* sort_values("Month") (kind="quicksort", not stable): the set of results it
\* may give, one for every order of the rows that share a month.
RECURSIVE SortByMonth(_)
SortByMonth(rows) ==
    IF rows = <<>> THEN {<<>>}
    ELSE UNION {InsertByMonth(sorted, rows[Len(rows)]) :
                  sorted \in SortByMonth(SubSeq(rows, 1, Len(rows) - 1))}

\* Lines 70-81 on one retained row.
Enrich(r) ==
    LET ts == to_datetime(r["Date"])
        name == strftime_B(ts)
    IN [c \in DOMAIN r \cup {"Type", "Month"} |->
          IF c = "Date" THEN ts
          ELSE IF c = "Type" THEN Classify(r["Amount"].val)
          ELSE IF c = "Month" THEN (IF MonthCode(name) = 0 THEN "NaN" ELSE name)
          ELSE r[c]]

\* analyze_data(df): the set of its possible outcomes (one for every order
\* the sort may leave rows of the same month in). raised is "" on a normal
\* return, else the exception; arg is the caller's frame as the call leaves
\* it; out is the returned frame.
analyze_data(frame) ==
    IF "Amount" \notin frame.columns
    THEN {[raised |-> "KeyError", arg |-> frame, out |-> EmptyFrame]}
    ELSE
      LET coerced == [frame EXCEPT !.rows =
                        [i \in DOMAIN frame.rows |->
                           [frame.rows[i] EXCEPT !["Amount"] = to_numeric(@)]]]
          kept == dropna(coerced.rows)
      IN IF "Date" \notin frame.columns
         THEN {[raised |-> "KeyError", arg |-> coerced, out |-> EmptyFrame]}
         ELSE IF \E i \in DOMAIN kept : ~Parseable(kept[i]["Date"])
         THEN {[raised |-> "ValueError", arg |-> coerced, out |-> EmptyFrame]}
         ELSE {[raised |-> "",
                arg |-> coerced,
                out |-> [columns |-> frame.columns \cup {"Type", "Month"},
                         rows |-> sorted]] :
                 sorted \in SortByMonth([i \in DOMAIN kept |-> Enrich(kept[i])])}

\* ---------------------------------------------------------------- generate_insights
AmountOf(r) == r["Amount"].val

\* df[df["Type"] == t]["Amount"].sum()
SumOfType(rows, t) ==
    LET IsT(r) == r["Type"] = t
        sel == SelectSeq(rows, IsT)
    IN SumSeq([i \in DOMAIN sel |-> AmountOf(sel[i])])

\* Group keys are sorted: "Expense" before "Sales".
TypeOrder == <<"Expense", "Sales">>

HasType(rows, t) == \E i \in DOMAIN rows : rows[i]["Type"] = t

HasGroup(rows, m, t) ==
    \E i \in DOMAIN rows : rows[i]["Month"] = m /\ rows[i]["Type"] = t

GroupSum(rows, m, t) ==
    LET InGroup(r) == r["Month"] = m /\ r["Type"] = t
        sel == SelectSeq(rows, InGroup)
    IN SumSeq([i \in DOMAIN sel |-> AmountOf(sel[i])])

\* The default of groupby's `observed` for a categorical key: False before
\* pandas 3.0 (every category is a group), True from 3.0 on.
GroupbyObservedDefaults == {FALSE, TRUE}

\* df.groupby(["Month", "Type"])["Amount"].sum().reset_index(): rows with a NaN
\* Month are in no group. With observed = FALSE the result holds every
\* category of Month crossed with every Type value of the frame.
monthly_summary_of(rows, observed) ==
    LET nT == Len(TypeOrder)
        pairs == [i \in 1..(Len(month_order) * nT) |->
                    [Month |-> month_order[((i - 1) \div nT) + 1],
                     Type |-> TypeOrder[((i - 1) % nT) + 1]]]
        InResult(p) ==
            IF observed THEN HasGroup(rows, p.Month, p.Type)
            ELSE HasType(rows, p.Type)
        kept == SelectSeq(pairs, InResult)
    IN [i \in DOMAIN kept |->
          [Month |-> kept[i].Month,
           Type |-> kept[i].Type,
           Amount |-> GroupSum(rows, kept[i].Month, kept[i].Type)]]

PositiveMessage == "The business performed well this month with a positive profit margin."

LossMessage == "Expenses were higher than sales, resulting in a loss this month. Consider reducing expenses."

BalancedMessage == "Sales and expenses were balanced this month."

ReviewNoBalance(profit) ==
    IF profit >= 0 THEN PositiveMessage ELSE LossMessage

\* Lines 114-119.
Review(profit) ==
    IF profit > 0 THEN PositiveMessage
    ELSE IF profit < 0 THEN LossMessage
    ELSE BalancedMessage

SummaryAmount(summary, m, t) ==
    LET Is(s) == s.Month = m /\ s.Type = t
        sel == SelectSeq(summary, Is)
    IN SumSeq([i \in DOMAIN sel |-> sel[i].Amount])

\* Lines 109-127 for one month.
MonthlyReview(summary, m) ==
    LET sales == SummaryAmount(summary, m, "Sales")
        expenses == SummaryAmount(summary, m, "Expense")
        profit == sales + expenses
    IN [Month |-> m, Sales |-> sales, Expenses |-> expenses, Profit |-> profit,
        Review |-> Review(profit)]

monthly_reviews_of(summary) ==
    LET months == Unique([i \in DOMAIN summary |-> summary[i].Month])
    IN [i \in DOMAIN months |-> MonthlyReview(summary, months[i])]

MaxDescription(rows) ==
    LET ds == {rows[i]["Description"] : i \in DOMAIN rows} \cup {0}
    IN CHOOSE d \in ds : \A e \in ds : e <= d

\* df[df["Type"] == "Sales"].groupby("Description")["Amount"].sum().reset_index():
\* one row per label in label order; NaN labels are in no group.
product_groups(rows) ==
    LET IsSales(r) == r["Type"] = "Sales"
        sales == SelectSeq(rows, IsSales)
        labels == [k \in 1..MaxDescription(sales) |-> k]
        Present(k) == \E i \in DOMAIN sales : sales[i]["Description"] = k
        keys == SelectSeq(labels, Present)
        Total(k) ==
            LET Of(r) == r["Description"] = k
                sel == SelectSeq(sales, Of)
            IN SumSeq([i \in DOMAIN sel |-> AmountOf(sel[i])])
    IN [i \in DOMAIN keys |-> [Description |-> keys[i], Amount |-> Total(keys[i])]]

\* Every way to put p into the ranking that keeps it descending: among
\* products of the same total p may land anywhere.
InsertDescending(sorted, p) ==
    {InsertAt(sorted, i, p) :
       i \in {j \in 0..Len(sorted) :
                /\ \A k \in 1..j : sorted[k].Amount >= p.Amount
                /\ \A k \in (j + 1)..Len(sorted) : sorted[k].Amount <= p.Amount}}

InsertAscending(sorted, p) ==
    {InsertAt(sorted, i, p) :
       i \in {j \in 0..Len(sorted) :
                /\ \A k \in 1..j : sorted[k].Amount <= p.Amount
                /\ \A k \in (j + 1)..Len(sorted) : sorted[k].Amount >= p.Amount}}

RECURSIVE sort_ascending(_)
sort_ascending(ps) ==
    IF ps = <<>> THEN {<<>>}
    ELSE UNION {InsertAscending(sorted, ps[Len(ps)]) :
                  sorted \in sort_ascending(SubSeq(ps, 1, Len(ps) - 1))}

\* sort_values(by="Amount", ascending=False) (kind="quicksort", not stable):
\* the set of results it may give, one for every order of the products that
\* share a total.
RECURSIVE sort_descending(_)
sort_descending(ps) ==
    IF ps = <<>> THEN {<<>>}
    ELSE UNION {InsertDescending(sorted, ps[Len(ps)]) :
                  sorted \in sort_descending(SubSeq(ps, 1, Len(ps) - 1))}

\* DataFrame.head(n) and DataFrame.tail(n)
head(s, n) == SubSeq(s, 1, Min(n, Len(s)))

tail(s, n) == SubSeq(s, Max(1, Len(s) - n + 1), Len(s))

\* Lines 130-131: the rankings the sort may give.
product_performance_of(rows) == sort_descending(product_groups(rows))

NoInsights == [computed |-> FALSE]

\* generate_insights(df), under one default of groupby's `observed`: the set
\* of bundles it may return, one for every ranking the sort may give.
generate_insights(rows, observed) ==
    LET total_sales == SumOfType(rows, "Sales")
        total_expenses == SumOfType(rows, "Expense")
        summary == monthly_summary_of(rows, observed)
    IN {[computed |-> TRUE,
         total_sales |-> total_sales,
         total_expenses |-> total_expenses,
         net_profit |-> total_sales + total_expenses,
         monthly_summary |-> summary,
         monthly_reviews |-> monthly_reviews_of(summary),
         product_performance |-> performance,
         top_products |-> head(performance, 5),
         underperforming_products |-> tail(performance, 5)] :
          performance \in product_performance_of(rows)}

\* ---------------------------------------------------------------- generate_pdf
\* f"₦{x:,.2f}": the currency symbol and the amount in hundredths.
fmt(x) == [currency |-> "₦", hundredths |-> x * 100]

Paragraph(text, style) == [kind |-> "Paragraph", text |-> text, style |-> style]

Spacer == [kind |-> "Spacer"]

PageBreak == [kind |-> "PageBreak"]

Table(data, colWidths) == [kind |-> "Table", data |-> data, colWidths |-> colWidths]

Image(content) == [kind |-> "Image", content |-> content]

\* generate_aggregate_chart(monthly_reviews): the series it plots.
generate_aggregate_chart(reviews) ==
    [chart |-> "aggregate",
     months |-> [i \in DOMAIN reviews |-> reviews[i].Month],
     sales |-> [i \in DOMAIN reviews |-> reviews[i].Sales],
     expenses |-> [i \in DOMAIN reviews |-> Abs(reviews[i].Expenses)],
     profit |-> [i \in DOMAIN reviews |-> reviews[i].Profit]]

\* generate_monthly_chart(month, sales, expenses): the bars it plots.
generate_monthly_chart(month, sales, expenses) ==
    [chart |-> "monthly", month |-> month, values |-> <<sales, Abs(expenses)>>]

AnnualHeader == <<"Month", "Sales", "Expenses", "Profit">>

\* Lines 221-230.
AnnualRow(review) ==
    [Month |-> review.Month, Sales |-> fmt(review.Sales),
     Expenses |-> fmt(Abs(review.Expenses)), Profit |-> fmt(review.Profit)]

AnnualTable(reviews) ==
    Table([header |-> AnnualHeader,
           body |-> [i \in DOMAIN reviews |-> AnnualRow(reviews[i])]],
          <<100, 100, 100, 100>>)

\* Lines 257-262.
MonthTable(review) ==
    Table([Sales |-> fmt(review.Sales),
           Expenses |-> fmt(Abs(review.Expenses)),
           Profit |-> fmt(review.Profit)],
          <<200, 200>>)

\* Lines 256-277: one pass of the loop over insights["monthly_reviews"].
MonthSection(review) ==
    << Paragraph(<<"Monthly Performance - ", review.Month>>, "Heading2"),
       MonthTable(review),
       Image(generate_monthly_chart(review.Month, review.Sales, review.Expenses)),
       Spacer,
       Paragraph(<<"**Summary**: ", review.Review>>, "Normal"),
       PageBreak >>

RECURSIVE MonthSectionsReversed(_)
MonthSectionsReversed(reviews) ==
    IF reviews = <<>> THEN <<>>
    ELSE MonthSectionsReversed(Tail(reviews)) \o MonthSection(Head(reviews))

RECURSIVE MonthSections(_)
MonthSections(reviews) ==
    IF reviews = <<>> THEN <<>>
    ELSE MonthSection(Head(reviews)) \o MonthSections(Tail(reviews))

\* Lines 208-217.
FrontMatter(title, business_logo, business_name) ==
    (IF business_logo THEN <<Image([logo |-> TRUE])>> ELSE <<>>)
    \o << Paragraph(<<IF business_name = "" THEN "Business Name" ELSE business_name>>, "Title"),
          Paragraph(<<title>>, "Heading2"),
          Paragraph(<<"Report Date: ", "today">>, "Normal"),
          Spacer >>

\* generate_pdf(...): the list `elements` handed to doc.build.
generate_pdf(title, business_logo, business_name, ins) ==
    FrontMatter(title, business_logo, business_name)
    \o << Paragraph(<<"Annual Performance Summary (Detailed)">>, "Heading2"),
          AnnualTable(ins.monthly_reviews),
          Spacer,
          Paragraph(<<"Overall Performance Chart">>, "Heading2"),
          Image(generate_aggregate_chart(ins.monthly_reviews)),
          PageBreak >>
    \o MonthSections(ins.monthly_reviews)

\* ---------------------------------------------------------------- inputs
Dates == {20240105, 20240210, 0, 20241340}

Amounts == {Num(2), Num(0 - 2), Num(0), Text}

Descriptions == {1}

FullRows == [Date : Dates, Description : Descriptions, Amount : Amounts]

\* The column sets of an uploaded file: all required columns, or one missing.
ColumnChoices == {required_columns} \cup {required_columns \ {c} : c \in required_columns}

\* pd.read_csv / pd.read_excel: n rows over the columns cols, labelled 0..n-1.
FramesOver(cols, n) ==
    {[columns |-> cols,
      rows |-> [i \in 1..n |->
                  [c \in cols \cup {"index"} |->
                     IF c = "index" THEN i - 1 ELSE picked[i][c]]]] :
       picked \in [1..n -> {[c \in cols |-> r[c]] : r \in FullRows}]}

\* The sales file of the product-ranking inputs: one row per product, product
\* p dated the 5th of month p, with an amount of 0 (no sale) or its price;
\* the prices are 1, 2, 3, 1, 2, 3, ... so that products tie.
RankPrice(p) == 1 + ((p - 1) % 3)

RankDate(p) == 20240005 + 100 * (((p - 1) % 12) + 1)

RankSalesFrames ==
    {[columns |-> required_columns,
      rows |-> [p \in 1..MaxProducts |->
                  [index |-> p - 1, Date |-> RankDate(p), Description |-> p,
                   Amount |-> Num(IF sold[p] THEN RankPrice(p) ELSE 0)]]] :
       sold \in [1..MaxProducts -> BOOLEAN]}

RankExpenseFrames ==
    UNION {FramesOver(cols, 0) : cols \in ColumnChoices}
    \cup {fr \in FramesOver(required_columns, 1) : fr.rows[1]["Amount"] = Num(0 - 2)}

\* ---------------------------------------------------------------- dashboard
Fresh ==
    /\ pc = "start"
    /\ df = EmptyFrame
    /\ records = EmptyFrame
    /\ insights = NoInsights
    /\ elements = <<>>
    /\ calls = <<>>
    /\ error = ""

Init ==
    /\ \E n \in 0..MaxRows, k \in 0..MaxRows, cs \in ColumnChoices, ce \in ColumnChoices :
          /\ n + k <= MaxRows
          /\ sales_df \in FramesOver(cs, n)
          /\ expenses_df \in FramesOver(ce, k)
    /\ Fresh

InitRank ==
    /\ sales_df \in RankSalesFrames
    /\ expenses_df \in RankExpenseFrames
    /\ Fresh

ColumnsOkEither(s, e) ==
    required_columns \subseteq s.columns \/ required_columns \subseteq e.columns

\* Line 321, negated: both files hold every required column.
ColumnsOk(s, e) ==
    required_columns \subseteq s.columns /\ required_columns \subseteq e.columns

\* Lines 321-323: st.error(...) and return.
ColumnsMissing ==
    /\ pc = "start"
    /\ ~ColumnsOk(sales_df, expenses_df)
    /\ pc' = "error"
    /\ error' = "MissingColumns"
    /\ UNCHANGED <<sales_df, expenses_df, df, records, insights, elements, calls>>

ColumnsPresent ==
    /\ pc = "start"
    /\ ColumnsOk(sales_df, expenses_df)
    /\ pc' = "validated"
    /\ UNCHANGED <<sales_df, expenses_df, df, records, insights, elements, calls, error>>

\* The frame dashboard passes to analyze_data (lines 326-330).
Combined(s, e) == concat(TagType(s, "Sales"), TagType(e, "Expense"))

\* Lines 326-331: tag both frames, concatenate, call analyze_data. An
\* exception raised by analyze_data ends the run.
CallAnalyzeData ==
    /\ pc = "validated"
    /\ \E res \in analyze_data(Combined(sales_df, expenses_df)) :
          /\ calls' = Append(calls, "analyze_data")
          /\ df' = res.arg
          /\ records' = res.out
          /\ error' = res.raised
          /\ pc' = IF res.raised = "" THEN "analyzed" ELSE "failed"
    /\ sales_df' = TagType(sales_df, "Sales")
    /\ expenses_df' = TagType(expenses_df, "Expense")
    /\ UNCHANGED <<insights, elements>>

\* Lines 334-343: the 'Type' check, then generate_insights.
CallGenerateInsights ==
    /\ pc = "analyzed"
    /\ IF "Type" \notin records.columns
       THEN /\ pc' = "error"
            /\ error' = "MissingType"
            /\ UNCHANGED <<insights, calls>>
       ELSE \E observed \in GroupbyObservedDefaults :
            /\ insights' \in generate_insights(records.rows, observed)
            /\ calls' = Append(calls, "generate_insights")
            /\ pc' = "insights"
            /\ UNCHANGED error
    /\ UNCHANGED <<sales_df, expenses_df, df, records, elements>>

\* Lines 390-397: generate_pdf with the uploaded logo (optional) and name.
CallGeneratePdf ==
    /\ pc = "insights"
    /\ \E business_logo \in BOOLEAN, business_name \in {"", "Acme"} :
          elements' = generate_pdf("Business Performance Report", business_logo,
                                   business_name, insights)
    /\ calls' = Append(calls, "generate_pdf")
    /\ pc' = "done"
    /\ UNCHANGED <<sales_df, expenses_df, df, records, insights, error>>

Next ==
    \/ ColumnsMissing
    \/ ColumnsPresent
    \/ CallAnalyzeData
    \/ CallGenerateInsights
    \/ CallGeneratePdf

Spec == Init /\ [][Next]_vars

SpecRank == InitRank /\ [][Next]_vars

\* ================================================================ claims
\* The frame analyze_data was called with, as it was before the call.
SourceRows == Combined(sales_df, expenses_df).rows

Called == pc \in {"analyzed", "failed", "insights", "done"}

Coercible(r) == r["Amount"].kind = "num"

\* Calendar number of a month name (1 for January ... 12 for December).
CalendarNumber(name) == Position(MonthName, name)

MonthNames == {MonthName[i] : i \in DOMAIN MonthName}

RecordsOf(m, t) ==
    LET In(r) == r["Month"] = m /\ r["Type"] = t
    IN SelectSeq(records.rows, In)

RecordSum(m, t) ==
    LET sel == RecordsOf(m, t)
    IN SumSeq([i \in DOMAIN sel |-> sel[i]["Amount"].val])

HasRecord(m) == \E i \in DOMAIN records.rows : records.rows[i]["Month"] = m

NonIncreasing(ps) ==
    \A i, j \in DOMAIN ps : i < j => ps[i].Amount >= ps[j].Amount

\* C1: every record analyze_data retains has Type Sales iff its Amount is > 0
\* and Type Expense iff its Amount is <= 0, whatever Type its source file
\* gave it.
C1_TypeFromSign ==
    \A i \in DOMAIN records.rows :
        LET r == records.rows[i]
        IN /\ r["Type"] \in {"Sales", "Expense"}
           /\ (r["Type"] = "Sales") <=> (r["Amount"].val > 0)
           /\ (r["Type"] = "Expense") <=> (r["Amount"].val <= 0)

\* A zero-amount row of the sales file (tagged Sales) is retained as Expense.
C1_Witness ==
    /\ pc = "analyzed"
    /\ \E i \in DOMAIN records.rows :
          LET r == records.rows[i]
          IN /\ r["Amount"].val = 0
             /\ r["Type"] = "Expense"
             /\ SourceRows[r["index"] + 1]["Type"] = "Sales"

\* C2 (as claimed): generate_insights returns exactly one MonthlyReview for
\* each month that has a record and none for a month that has no record.
C2_OneReviewPerMonthPresent ==
    insights.computed =>
        \A m \in MonthNames :
            Cardinality({i \in DOMAIN insights.monthly_reviews :
                            insights.monthly_reviews[i].Month = m})
              = (IF HasRecord(m) THEN 1 ELSE 0)

\* C3 (as claimed): analyze_data fails, returning no records, iff some row
\* carries an unparseable date, whatever that row's amount; otherwise the rows
\* with an uncoercible amount are dropped without error and the rest retained.
C3_AnyBadDateFails ==
    Called =>
        IF \E i \in DOMAIN SourceRows : ~Parseable(SourceRows[i]["Date"])
        THEN pc = "failed" /\ error = "ValueError" /\ records = EmptyFrame
        ELSE /\ error = ""
             /\ {records.rows[i]["index"] : i \in DOMAIN records.rows}
                  = {SourceRows[i]["index"] :
                       i \in {j \in DOMAIN SourceRows : Coercible(SourceRows[j])}}

\* C3 (amended): analyze_data fails, returning no records, iff some row whose
\* amount can be coerced carries an unparseable date; otherwise every row
\* with an uncoercible amount is dropped without error (its date is never
\* parsed) and every other row is retained exactly once.
C3_BadDateOfKeptRowFails ==
    Called =>
        IF \E i \in DOMAIN SourceRows :
              Coercible(SourceRows[i]) /\ ~Parseable(SourceRows[i]["Date"])
        THEN pc = "failed" /\ error = "ValueError" /\ records = EmptyFrame
        ELSE /\ error = ""
             /\ pc # "failed"
             /\ {records.rows[i]["index"] : i \in DOMAIN records.rows}
                  = {SourceRows[i]["index"] :
                       i \in {j \in DOMAIN SourceRows : Coercible(SourceRows[j])}}
             /\ \A i, j \in DOMAIN records.rows :
                   records.rows[i]["index"] = records.rows[j]["index"] => i = j

\* A row with an unparseable date and an uncoercible amount is dropped, no
\* error is raised and the other row is retained.
C3_Witness ==
    /\ pc = "analyzed"
    /\ error = ""
    /\ Len(records.rows) = 1
    /\ \E i \in DOMAIN SourceRows :
          ~Coercible(SourceRows[i]) /\ ~Parseable(SourceRows[i]["Date"])

\* C4: the MonthlyReview sequence is in strictly increasing calendar order.
C4_CalendarOrder ==
    insights.computed =>
        LET rs == insights.monthly_reviews
        IN /\ \A i \in DOMAIN rs : CalendarNumber(rs[i].Month) \in 1..12
           /\ \A i, j \in DOMAIN rs :
                 i < j => CalendarNumber(rs[i].Month) < CalendarNumber(rs[j].Month)

\* The input holds a February row before a January row; both months are
\* reviewed.
C4_Witness ==
    /\ insights.computed
    /\ Len(SourceRows) = 2
    /\ SourceRows[1]["Date"] = 20240210
    /\ SourceRows[2]["Date"] = 20240105
    /\ Len(records.rows) = 2
    /\ Len(insights.monthly_reviews) >= 2

\* C5: analyze_data, generate_insights and generate_pdf are called, in this
\* order, only after the column check passed for both files; when a file
\* lacks a required column the run stops with an error and produces neither
\* records, nor an insight bundle, nor a document.
C5_ColumnCheckFirst ==
    LET ok == /\ required_columns \subseteq sales_df.columns
              /\ required_columns \subseteq expenses_df.columns
    IN /\ ~ok => /\ pc \in {"start", "error"}
                 /\ calls = <<>>
                 /\ df = EmptyFrame
                 /\ records = EmptyFrame
                 /\ insights = NoInsights
                 /\ elements = <<>>
       /\ pc = "error" => ~ok /\ error = "MissingColumns"
       /\ calls = SubSeq(<<"analyze_data", "generate_insights", "generate_pdf">>,
                         1, Len(calls))

\* The sales file is complete, the expenses file lacks a column: the run
\* stopped with the error.
C5_Witness ==
    /\ pc = "error"
    /\ required_columns \subseteq sales_df.columns
    /\ ~(required_columns \subseteq expenses_df.columns)
    /\ Len(sales_df.rows) > 0

\* C6: product_performance holds one entry per description with a Sales row,
\* its Amount the sum of that description's Sales amounts, in non-increasing
\* order; top_products is its first min(5, n) entries and
\* underperforming_products its last min(5, n); both are non-increasing; they
\* share 10 - n entries when 5 < n < 10 and both are the whole ranking when
\* n <= 5.
C6_Ranking ==
    insights.computed =>
        LET perf == insights.product_performance
            top == insights.top_products
            under == insights.underperforming_products
            n == Len(perf)
            k == Min(5, n)
            sold == {records.rows[i]["Description"] :
                       i \in {j \in DOMAIN records.rows :
                                records.rows[j]["Type"] = "Sales"}}
            SalesOf(d) ==
                LET Of(r) == r["Type"] = "Sales" /\ r["Description"] = d
                    sel == SelectSeq(records.rows, Of)
                IN SumSeq([i \in DOMAIN sel |-> sel[i]["Amount"].val])
            Set(ps) == {ps[i] : i \in DOMAIN ps}
        IN /\ {perf[i].Description : i \in DOMAIN perf} = sold
           /\ n = Cardinality(sold)
           /\ \A i \in DOMAIN perf : perf[i].Amount = SalesOf(perf[i].Description)
           /\ NonIncreasing(perf)
           /\ top = SubSeq(perf, 1, k)
           /\ under = SubSeq(perf, n - k + 1, n)
           /\ NonIncreasing(top)
           /\ NonIncreasing(under)
           /\ (n > 5 /\ n < 10) => Cardinality(Set(top) \cap Set(under)) = 10 - n
           /\ n <= 5 => top = perf /\ under = perf

\* More than five products with different totals, two products of the same
\* total ranked against their label order: the two lists differ and overlap.
C6_Witness ==
    /\ insights.computed
    /\ Len(insights.product_performance) > 5
    /\ insights.product_performance[1].Amount
         > insights.product_performance[Len(insights.product_performance)].Amount
    /\ insights.top_products # insights.underperforming_products
    /\ \E i, j \in DOMAIN insights.product_performance :
          /\ i < j
          /\ insights.product_performance[i].Amount
               = insights.product_performance[j].Amount
          /\ insights.product_performance[i].Description
               > insights.product_performance[j].Description
    /\ \E i \in DOMAIN insights.top_products :
          \E j \in DOMAIN insights.underperforming_products :
             insights.top_products[i] = insights.underperforming_products[j]

\* C7: the elements of the document are, in this order: the optional logo,
\* the business name, the report title, the report date, the annual table
\* (header Month/Sales/Expenses/Profit, then one row per MonthlyReview in the
\* bundle's order), the aggregate chart, a page break, and then for each
\* MonthlyReview in that same order its table, its chart, its narration and a
\* page break; every other element between them is a spacer or a section
\* heading.
C7_ElementOrder ==
    pc = "done" =>
        LET rs == insights.monthly_reviews
            n == Len(rs)
            off == IF elements[1].kind = "Image" THEN 1 ELSE 0
            at(i) == elements[off + i]
            sec(i, k) == elements[off + 10 + 6 * (i - 1) + k]
            Layout(e) ==
                \/ e.kind = "Spacer"
                \/ e.kind = "Paragraph" /\ e.style = "Heading2"
        IN /\ Len(elements) = off + 10 + 6 * n
           /\ off = 1 => elements[1].content = [logo |-> TRUE]
           /\ at(1).kind = "Paragraph" /\ at(1).style = "Title"
           /\ at(2).kind = "Paragraph"
           /\ at(2).text = <<"Business Performance Report">>
           /\ at(3).kind = "Paragraph" /\ at(3).text[1] = "Report Date: "
           /\ Layout(at(4)) /\ Layout(at(5))
           /\ at(6).kind = "Table"
           /\ at(6).data.header = <<"Month", "Sales", "Expenses", "Profit">>
           /\ Len(at(6).data.body) = n
           /\ \A i \in 1..n : at(6).data.body[i].Month = rs[i].Month
           /\ Layout(at(7)) /\ Layout(at(8))
           /\ at(9).kind = "Image" /\ at(9).content.chart = "aggregate"
           /\ at(10).kind = "PageBreak"
           /\ \A i \in 1..n :
                 /\ Layout(sec(i, 1))
                 /\ sec(i, 2).kind = "Table"
                 /\ sec(i, 2).data.Sales = fmt(rs[i].Sales)
                 /\ sec(i, 2).data.Expenses = fmt(Abs(rs[i].Expenses))
                 /\ sec(i, 2).data.Profit = fmt(rs[i].Profit)
                 /\ sec(i, 3).kind = "Image"
                 /\ sec(i, 3).content.chart = "monthly"
                 /\ sec(i, 3).content.month = rs[i].Month
                 /\ Layout(sec(i, 4))
                 /\ sec(i, 5).kind = "Paragraph"
                 /\ sec(i, 5).text = <<"**Summary**: ", rs[i].Review>>
                 /\ sec(i, 6).kind = "PageBreak"

\* A document with a logo and the sections of two months that differ in
\* their figures.
C7_Witness ==
    /\ pc = "done"
    /\ elements[1].kind = "Image"
    /\ Len(insights.monthly_reviews) >= 2
    /\ insights.monthly_reviews[1].Profit > 0
    /\ insights.monthly_reviews[2].Profit < 0

\* C8 (as claimed): after analyze_data returns or fails, the frame the caller
\* passed in is what it was before the call.
C8_ArgumentUnchanged ==
    Called => df = Combined(sales_df, expenses_df)

\* C9: each MonthlyReview holds the month's Sales and Expense sums, its
\* profit is their sum, and its narration is the positive message iff
\* profit > 0, the loss warning iff profit < 0, the balanced message iff
\* profit = 0.
C9_NarrationBySign ==
    insights.computed =>
        \A i \in DOMAIN insights.monthly_reviews :
            LET r == insights.monthly_reviews[i]
            IN /\ r.Sales = RecordSum(r.Month, "Sales")
               /\ r.Expenses = RecordSum(r.Month, "Expense")
               /\ r.Profit = r.Sales + r.Expenses
               /\ (r.Review = PositiveMessage) <=> (r.Profit > 0)
               /\ (r.Review = LossMessage) <=> (r.Profit < 0)
               /\ (r.Review = BalancedMessage) <=> (r.Profit = 0)

\* A month whose only record has amount 0 gets the balanced message.
C9_Witness ==
    /\ insights.computed
    /\ \E i \in DOMAIN insights.monthly_reviews :
          LET r == insights.monthly_reviews[i]
          IN /\ r.Review = BalancedMessage
             /\ Len(RecordsOf(r.Month, "Sales")) = 0
             /\ Len(RecordsOf(r.Month, "Expense")) = 1
             /\ RecordsOf(r.Month, "Expense")[1]["Amount"].val = 0

\* C10 (as claimed): the Sales, Expenses and Profit of the MonthlyReviews add
\* up to total_sales, total_expenses and net_profit.
C10_MonthsAddUpToTotals ==
    insights.computed =>
        LET rs == insights.monthly_reviews
        IN /\ SumSeq([i \in DOMAIN rs |-> rs[i].Sales]) = insights.total_sales
           /\ SumSeq([i \in DOMAIN rs |-> rs[i].Expenses]) = insights.total_expenses
           /\ SumSeq([i \in DOMAIN rs |-> rs[i].Profit]) = insights.net_profit

====
